---- MODULE Spec2Model ----
(***************************************************************************)
(* Model of app.py: a two-page Streamlit application.  Every user          *)
(* interaction re-runs main() against st.session_state; one action of the  *)
(* model is one interaction, including the st.rerun() it triggers.         *)
(*                                                                         *)
(* Session state modelled: current_page, form_inputs, resultados.          *)
(* st.session_state.resultados_dict is rewritten from resultados at the    *)
(* top of render_planilha_final before every read, so it is modelled as a  *)
(* local of SaveEdicao; st.session_state.processo is written and never     *)
(* read.                                                                   *)
(***************************************************************************)
EXTENDS Integers, Sequences, FiniteSets, TLC

VARIABLES
    current_page,   \* st.session_state.current_page
    form_inputs,    \* st.session_state.form_inputs
    resultados,     \* st.session_state.resultados: <<>> when the key is absent, <<df>> otherwise
    out,            \* what the last script run rendered / called
    saved           \* history: per record, <<>> or <<F>>, the fields of its last save

vars == <<current_page, form_inputs, resultados, out, saved>>

-----------------------------------------------------------------------------
(* Bounds and input sets *)

MaxRows == 2

\* line 94 (the names without their leading pictographs)
pages == <<"Oportunidade de melhorias", "Planilha Final">>

FormFields == <<"ramo_empresa", "direcionadores", "nome_processo", "atividade", "evento", "causa">>

FieldNames == <<"Oportunidade de Melhoria", "Solução", "Backlog de Atividades", "Investimento", "Ganhos">>

Range(s) == {s[i] : i \in 1..Len(s)}

Short == "Sim"
Long == "Automatizar a cotação com fornecedores homologados"

BaseRow == [f \in Range(FieldNames) |-> Short]

\* what the user may type into the five text areas of one edit form
RowInputs ==
    {BaseRow,
     [BaseRow EXCEPT !["Oportunidade de Melhoria"] = Long],
     [BaseRow EXCEPT !["Ganhos"] = Long],
     [BaseRow EXCEPT !["Solução"] = ""]}

EmptyForm == [k \in Range(FormFields) |-> ""]
FilledForm == [k \in Range(FormFields) |-> "Varejo"]

\* what the user may type into the six text inputs of the form
FormInputs == {EmptyForm, FilledForm} \cup {[FilledForm EXCEPT ![k] = ""] : k \in Range(FormFields)}

-----------------------------------------------------------------------------
(* The analysis collaborator (process.run_agent_analysis) *)

AnalysisRows == {BaseRow, [BaseRow EXCEPT !["Oportunidade de Melhoria"] = Long]}

\* a tabular result with the five fixed columns and any number of rows
AnalysisResults ==
    {[columns |-> FieldNames, data |-> d] : d \in UNION {[1..n -> AnalysisRows] : n \in 0..MaxRows}}

-----------------------------------------------------------------------------
(* Numbers as Python sees them here: an int, or the float NaN *)

NaN == [nan |-> TRUE, v |-> 0]
Num(n) == [nan |-> FALSE, v |-> n]

\* b > a; every comparison with NaN is False
PyGreater(b, a) == ~a.nan /\ ~b.nan /\ b.v > a.v

\* max(a, b): the first argument unless the second is greater
PyMax(a, b) == IF PyGreater(b, a) THEN b ELSE a

PyAdd(a, n) == IF a.nan THEN NaN ELSE Num(a.v + n)

RECURSIVE SeriesMaxFrom(_, _)
SeriesMaxFrom(s, acc) ==
    IF s = <<>> THEN acc
    ELSE SeriesMaxFrom(Tail(s), IF Head(s) > acc THEN Head(s) ELSE acc)

\* Series.max(): NaN for an empty series
SeriesMax(s) == IF s = <<>> THEN NaN ELSE Num(SeriesMaxFrom(Tail(s), Head(s)))

-----------------------------------------------------------------------------
(* convert_df_to_excel *)

ColumnLetters == <<"A", "B", "C", "D", "E">>

\* chr(65 + col_idx), col_idx zero-based
ColumnLetter(col_idx) == ColumnLetters[col_idx + 1]

\* df.columns.get_loc(column)
GetLoc(columns, column) == (CHOOSE i \in 1..Len(columns) : columns[i] = column) - 1

\* df[column].astype(str).map(len)
ColumnLens(df, column) == [i \in 1..Len(df.data) |-> Len(df.data[i][column])]

ColumnWidth(df, column) == PyMax(SeriesMax(ColumnLens(df, column)), Num(Len(column)))

\* variant: the sheet written without its header row
ExcelSheet_NoHeader(df) ==
    [i \in 1..Len(df.data) |-> [c \in 1..Len(df.columns) |-> df.data[i][df.columns[c]]]]

\* df.to_excel(..., index=False): the header row, then one row per record
ExcelSheet(df) ==
    <<df.columns>> \o
    [i \in 1..Len(df.data) |-> [c \in 1..Len(df.columns) |-> df.data[i][df.columns[c]]]]

ExcelWidths(df) ==
    [l \in {ColumnLetter(GetLoc(df.columns, col)) : col \in Range(df.columns)} |->
        LET col == CHOOSE col \in Range(df.columns) : ColumnLetter(GetLoc(df.columns, col)) = l
        IN  PyAdd(ColumnWidth(df, col), 2)]

convert_df_to_excel(df) == [sheet |-> ExcelSheet(df), width |-> ExcelWidths(df)]

-----------------------------------------------------------------------------
(* pandas / dict helpers used by render_planilha_final *)

\* a Python dict: its keys in insertion order and their values
Dict(keys, val) == [keys |-> keys, val |-> val]

\* df.to_dict('records')
ToDictRecords(df) ==
    [i \in 1..Len(df.data) |-> Dict(df.columns, [k \in Range(df.columns) |-> df.data[i][k]])]

\* keys of `more` not yet in `keys`, appended in order
AppendNew(keys, more) == keys \o SelectSeq(more, LAMBDA k : k \notin Range(keys))

\* row.update(new): existing keys keep their position, new keys are appended
DictUpdate(row, new) ==
    LET ks == AppendNew(row.keys, new.keys)
    IN  Dict(ks, [k \in Range(ks) |-> IF k \in Range(new.keys) THEN new.val[k] ELSE row.val[k]])

\* the dict literal of lines 286-292
EditDict(fields) == Dict(FieldNames, [k \in Range(FieldNames) |-> fields[k]])

\* variant: the update applied to every row of the loop
EditedRecords_AllRows(records, idx, fields) ==
    [i \in 1..Len(records) |-> DictUpdate(records[i], EditDict(fields))]

\* variant: the edit appended as a new row instead of updating row idx
EditedRecords_Append(records, idx, fields) == Append(records, EditDict(fields))

\* the loop of lines 245-294 with exactly form idx submitted
EditedRecords(records, idx, fields) ==
    [i \in 1..Len(records) |-> IF i = idx THEN DictUpdate(records[i], EditDict(fields)) ELSE records[i]]

RECURSIVE UnionKeys(_, _)
UnionKeys(records, acc) ==
    IF records = <<>> THEN acc
    ELSE UnionKeys(Tail(records), AppendNew(acc, Head(records).keys))

\* a cell no record supplies is NaN, which astype(str) renders as "nan"
MissingCell == "nan"

\* pd.DataFrame(list_of_dicts): columns in order of first appearance
DataFrameFromRecords(records) ==
    LET cols == UnionKeys(records, <<>>)
    IN  [columns |-> cols,
         data |-> [i \in 1..Len(records) |->
                     [k \in Range(cols) |->
                        IF k \in Range(records[i].keys) THEN records[i].val[k] ELSE MissingCell]]]

-----------------------------------------------------------------------------
(* Navigation guards and targets *)

\* line 102: disabled=(i == current_page)
SidebarEnabled(i, page) == i \in 0..(Len(pages) - 1) /\ i # page

\* variant: every index accepts "Finalizar"
FinalizarEnabled_Any(page) == page <= Len(pages) - 1

\* variant: "Próximo" offered up to and including the last index
ProximoEnabled_Inclusive(page) == page <= Len(pages) - 1

\* variant: the decrement left out
AnteriorTarget_Same(page) == page

\* variant: the last form field left out of the test
AllFilled_NoCausa(inputs) == \A k \in Range(FormFields) \ {"causa"} : inputs[k] # ""

\* variant: the first row of the result dropped
StoredResultados_Tail(analyst) ==
    <<[analyst EXCEPT !.data = IF @ = <<>> THEN @ ELSE Tail(@)]>>

\* variant: the edited frame not written back
StoredEdicao_Stale(previous, edited_df) == previous

\* line 352
AnteriorEnabled(page) == page > 0

\* line 357
ProximoEnabled(page) == page < Len(pages) - 1

\* lines 357, 361
FinalizarEnabled(page) == ~ProximoEnabled(page) /\ page = Len(pages) - 1

\* line 354
AnteriorTarget(page) == page - 1

\* line 359
ProximoTarget(page) == page + 1

\* line 103
SidebarTarget(i) == i

PageIs(page, name) == page + 1 \in DOMAIN pages /\ pages[page + 1] = name

\* line 201
AllFilled(inputs) == \A k \in Range(FormFields) : inputs[k] # ""

\* line 212
StoredResultados(analyst) == <<analyst>>

\* line 300
StoredEdicao(previous, edited_df) == <<edited_df>>

-----------------------------------------------------------------------------
(* What a script run renders *)

\* the row count of a collaborator result: <<>> when none was returned
NoCall == <<>>

Out(event, idx, messages, called, returned, excel, halted) ==
    [event |-> event, idx |-> idx, messages |-> messages, called |-> called,
     returned |-> returned, excel |-> excel, halted |-> halted]

\* messages of a run in which no form is submitted
RenderMessages(page, res) ==
    IF PageIs(page, "Planilha Final") /\ res = <<>> THEN {"warning_sem_resultados"} ELSE {}

NoSaved(res) == IF res = <<>> THEN <<>> ELSE [i \in 1..Len(res[1].data) |-> <<>>]

-----------------------------------------------------------------------------
Init ==
    /\ current_page = 0
    /\ form_inputs = EmptyForm
    /\ resultados = <<>>
    /\ out = Out("start", 0, {}, FALSE, NoCall, <<>>, FALSE)
    /\ saved = <<>>

\* lines 99-104: a sidebar button, then the rerun
SidebarSelect(i) ==
    /\ SidebarEnabled(i, current_page)
    /\ current_page' = SidebarTarget(i)
    /\ out' = Out("select", i, RenderMessages(current_page', resultados), FALSE, NoCall, <<>>, FALSE)
    /\ UNCHANGED <<form_inputs, resultados, saved>>

\* lines 352-355
Anterior ==
    /\ ~out.halted
    /\ AnteriorEnabled(current_page)
    /\ current_page' = AnteriorTarget(current_page)
    /\ out' = Out("prev", 0, RenderMessages(current_page', resultados), FALSE, NoCall, <<>>, FALSE)
    /\ UNCHANGED <<form_inputs, resultados, saved>>

\* lines 357-360
Proximo ==
    /\ ~out.halted
    /\ ProximoEnabled(current_page)
    /\ current_page' = ProximoTarget(current_page)
    /\ out' = Out("next", 0, RenderMessages(current_page', resultados), FALSE, NoCall, <<>>, FALSE)
    /\ UNCHANGED <<form_inputs, resultados, saved>>

\* lines 361-363
Finalizar ==
    /\ ~out.halted
    /\ FinalizarEnabled(current_page)
    /\ out' = Out("finish", 0, RenderMessages(current_page, resultados) \cup {"success_finalizado"},
                  FALSE, NoCall, <<>>, FALSE)
    /\ UNCHANGED <<current_page, form_inputs, resultados, saved>>

\* lines 190-223, validation fails
SubmitIncomplete(inputs) ==
    /\ PageIs(current_page, "Oportunidade de melhorias")
    /\ ~AllFilled(inputs)
    /\ form_inputs' = inputs
    /\ out' = Out("submit", 0, {"warning_campos"}, FALSE, NoCall, <<>>, FALSE)
    /\ UNCHANGED <<current_page, resultados, saved>>

\* lines 190-221, the collaborator returns
SubmitAnalysed(inputs, analyst) ==
    /\ PageIs(current_page, "Oportunidade de melhorias")
    /\ AllFilled(inputs)
    /\ form_inputs' = inputs
    /\ resultados' = StoredResultados(analyst)
    /\ saved' = NoSaved(resultados')
    /\ out' = Out("submit", 0, {"success_analise"}, TRUE, <<Len(analyst.data)>>,
                  <<convert_df_to_excel(analyst)>>, FALSE)
    /\ UNCHANGED current_page

\* lines 190-207, the collaborator raises: the run ends at line 207
SubmitRaises(inputs) ==
    /\ PageIs(current_page, "Oportunidade de melhorias")
    /\ AllFilled(inputs)
    /\ form_inputs' = inputs
    /\ out' = Out("submit", 0, {}, TRUE, NoCall, <<>>, TRUE)
    /\ UNCHANGED <<current_page, resultados, saved>>

\* lines 235-309 with the form of record idx submitted
SaveEdicao(idx, fields) ==
    /\ PageIs(current_page, "Planilha Final")
    /\ resultados # <<>>
    /\ idx \in 1..Len(resultados[1].data)
    /\ LET resultados_dict == EditedRecords(ToDictRecords(resultados[1]), idx, fields)
           edited_df == DataFrameFromRecords(resultados_dict)
       IN  /\ resultados' = StoredEdicao(resultados, edited_df)
           /\ out' = Out("save", idx, {"success_edicao"}, FALSE, NoCall,
                         <<convert_df_to_excel(edited_df)>>, FALSE)
    /\ saved' = [saved EXCEPT ![idx] = <<fields>>]
    /\ UNCHANGED <<current_page, form_inputs>>

\* a click on a download button re-runs the script with nothing submitted
Download ==
    /\ out.excel # <<>>
    /\ out' = Out("download", 0, RenderMessages(current_page, resultados), FALSE, NoCall, <<>>, FALSE)
    /\ UNCHANGED <<current_page, form_inputs, resultados, saved>>

Next ==
    \/ \E i \in 0..(Len(pages) - 1) : SidebarSelect(i)
    \/ Anterior
    \/ Proximo
    \/ Finalizar
    \/ \E inputs \in FormInputs : SubmitIncomplete(inputs)
    \/ \E inputs \in FormInputs, analyst \in AnalysisResults : SubmitAnalysed(inputs, analyst)
    \/ \E inputs \in FormInputs : SubmitRaises(inputs)
    \/ \E idx \in 1..MaxRows, fields \in RowInputs : SaveEdicao(idx, fields)
    \/ Download

Spec == Init /\ [][Next]_vars

TypeOK ==
    /\ current_page \in Int
    /\ form_inputs \in FormInputs
    /\ Len(resultados) <= 1
    /\ Len(saved) = (IF resultados = <<>> THEN 0 ELSE Len(resultados[1].data))

-----------------------------------------------------------------------------
(* Properties *)

pageCount == Len(pages)

Store == resultados[1].data

AnyEmpty(inputs) == \E k \in Range(FormFields) : inputs[k] = ""

RECURSIVE MaxOf(_)
MaxOf(S) ==
    LET x == CHOOSE x \in S : TRUE
    IN  IF S = {x} THEN x
        ELSE LET m == MaxOf(S \ {x}) IN IF x > m THEN x ELSE m

\* C1: the page index is 0 at the start and, after any sequence of sidebar
\* selections, "Próximo" and "Anterior", is an integer in [0, pageCount-1].
C1_PageIndexInRange ==
    /\ current_page \in 0..(pageCount - 1)
    /\ out.event = "start" => current_page = 0

C1_Witness == out.event = "prev" /\ current_page = 0

\* C2: saving the edit form of record i leaves every other record j # i with
\* the same five field values, at the same position.
C2_SaveChangesOnlyTarget ==
    [][out'.event = "save" =>
        /\ resultados # <<>> /\ resultados' # <<>>
        /\ Len(resultados'[1].data) = Len(Store)
        /\ \A j \in 1..Len(Store) :
              j # out'.idx =>
                 \A f \in Range(FieldNames) : resultados'[1].data[j][f] = Store[j][f]]_vars

C2_Witness ==
    /\ out.event = "save"
    /\ \E j \in 1..Len(Store) : j # out.idx /\ Store[j] # Store[out.idx]

\* C3: once the store exists, only a successful form submission changes its
\* length; edits and navigation keep the number of records.
C3_LengthFixed ==
    [][(resultados # <<>> /\ ~(out'.event = "submit" /\ out'.returned # <<>>)) =>
          resultados' # <<>> /\ Len(resultados'[1].data) = Len(Store)]_vars

C3_Witness ==
    /\ out.event = "save"
    /\ Len(Store) > 1
    /\ \A i \in 1..Len(Store) : saved[i] # <<>>

\* C4: a submission with at least one of the six fields empty shows the
\* warning, does not call the collaborator and leaves the store as it was.
C4_IncompleteSubmission ==
    [][(out'.event = "submit" /\ AnyEmpty(form_inputs')) =>
          /\ "warning_campos" \in out'.messages
          /\ ~out'.called
          /\ resultados' = resultados]_vars

C4_Witness ==
    /\ out.event = "submit"
    /\ "warning_campos" \in out.messages
    /\ AnyEmpty(form_inputs)
    /\ resultados # <<>>

\* C5: after a submission with all six fields non-empty for which the
\* collaborator returned, the store has as many records as rows were returned.
C5_StoreLengthIsReturnedRows ==
    (out.event = "submit" /\ ~AnyEmpty(form_inputs) /\ ~out.halted) =>
        /\ out.returned # <<>>
        /\ resultados # <<>>
        /\ Len(Store) = out.returned[1]

C5_Witness ==
    /\ out.event = "submit"
    /\ out.returned # <<>>
    /\ out.returned[1] > 1
    /\ Len(Store) = out.returned[1]

\* C6: the exported sheet is the five fixed field names in order followed by
\* one data row per record in store order: n+1 rows of 5 columns, for the
\* store as created and after edits.
C6_ExportShape ==
    out.excel # <<>> =>
        LET sheet == out.excel[1].sheet
        IN  /\ resultados # <<>>
            /\ Len(sheet) = Len(Store) + 1
            /\ sheet[1] = FieldNames
            /\ \A i \in 1..Len(Store) :
                  sheet[i + 1] = [c \in 1..Len(FieldNames) |-> Store[i][FieldNames[c]]]

C6_Witness ==
    /\ out.event = "save"
    /\ out.excel # <<>>
    /\ Len(out.excel[1].sheet) > 2
    /\ \E i \in 1..Len(Store) : Store[i] \notin AnalysisRows

ExpectedWidth(c) ==
    Num(MaxOf({Len(FieldNames[c])} \cup {Len(Store[i][FieldNames[c]]) : i \in 1..Len(Store)}) + 2)

\* C7: every exported column's width is the maximum of the header length and
\* all cell lengths of the column, plus 2, also for a store of zero records.
C7_WidthIsMaxPlusTwo ==
    out.excel # <<>> =>
        \A c \in 1..Len(FieldNames) : out.excel[1].width[ColumnLetters[c]] = ExpectedWidth(c)

\* C7, restricted to stores of at least one record
C7_WidthNonEmptyStore ==
    (out.excel # <<>> /\ Len(Store) > 0) =>
        \A c \in 1..Len(FieldNames) : out.excel[1].width[ColumnLetters[c]] = ExpectedWidth(c)

\* C8: "Finalizar" is taken only at index pageCount-1 and changes neither the
\* page index, nor the form inputs, nor the store; it emits the confirmation.
C8_FinalizarOnlyAtLast ==
    [][out'.event = "finish" =>
          /\ current_page = pageCount - 1
          /\ UNCHANGED <<current_page, form_inputs, resultados>>
          /\ "success_finalizado" \in out'.messages]_vars

C8_Witness == out.event = "finish" /\ resultados # <<>> /\ ~AnyEmpty(form_inputs)

\* C9: selecting page i sets the index to i; "Próximo" adds exactly 1 and is
\* not taken at pageCount-1; "Anterior" subtracts exactly 1 and is not taken at 0.
C9_NavigationSteps ==
    [][/\ out'.event = "select" =>
            out'.idx \in 0..(pageCount - 1) /\ current_page' = out'.idx
       /\ out'.event = "next" =>
            current_page # pageCount - 1 /\ current_page' = current_page + 1
       /\ out'.event = "prev" =>
            current_page # 0 /\ current_page' = current_page - 1]_vars

C9_Witness == out.event = "next" /\ current_page = 1

\* C10: a record saved with fields F keeps F through navigation, re-renders,
\* incomplete submissions and saves of other records, until it is saved again
\* or a submission succeeds.
C10_SavedEditPersists ==
    \A i \in 1..Len(saved) :
        saved[i] # <<>> =>
            /\ resultados # <<>>
            /\ i \in 1..Len(Store)
            /\ \A f \in Range(FieldNames) : Store[i][f] = saved[i][1][f]

C10_Witness ==
    /\ out.event = "submit"
    /\ "warning_campos" \in out.messages
    /\ \E i \in 1..Len(saved) :
          /\ saved[i] # <<>>
          /\ saved[i][1] \notin AnalysisRows
          /\ \E j \in 1..Len(saved) : j # i /\ saved[j] # <<>>

====
